---- MODULE Spec2Model ----
(***************************************************************************)
(* Model of src/fastfield/delete.rs: the delete bitset of a segment.       *)
(*                                                                         *)
(*   write_delete_bitset   packs a set of deleted DocIds into bytes        *)
(*   DeleteBitSet          { data: bytes, num_deleted: usize }             *)
(*   from_bitset / for_test / open   the three constructions               *)
(*   is_deleted / is_alive / num_deleted / len / space_usage   queries     *)
(*   merge_delete_bitset   byte-wise OR with zero extension                *)
(*                                                                         *)
(* Two specifications share the variables:                                 *)
(*   SpecCodec  one encode (with a sink that may fail), one construction,  *)
(*              one query: the inputs range over every set of at most      *)
(*              MaxCard documents of 0..MaxDoc;                            *)
(*   Spec       a pool of live DeleteBitSet values that grows by           *)
(*              construction and by merging, and is queried.               *)
(***************************************************************************)
EXTENDS Naturals, Sequences, FiniteSets

VARIABLES
    bitsets,  \* the live DeleteBitSet values, each with its history (ghost)
    last,     \* the outcome of the last query
    req,      \* SpecCodec: the arguments of the last encode / construction
    sink,     \* SpecCodec: the writer handed to write_delete_bitset
    wres      \* SpecCodec: what write_delete_bitset returned

vars == <<bitsets, last, req, sink, wres>>

(***************************************************************************)
(* Bounds                                                                  *)
(***************************************************************************)
\* SpecCodec: max_doc and the document ids range over 0..MaxDoc
MaxDoc == 10
\* SpecCodec: the deleted sets have at most MaxCard elements
MaxCard == 2
\* Spec: max_doc and the document ids range over 0..MaxPoolDoc
MaxPoolDoc == 3
\* Spec: at most MaxBitsets DeleteBitSet values are alive
MaxBitsets == 3

(***************************************************************************)
(* u8 arithmetic                                                           *)
(***************************************************************************)
Max(a, b) == IF a >= b THEN a ELSE b

Pow2(n) == 2 ^ n

\* x << s on a u8 (s < 8): the bits shifted out are lost
Shl8(x, s) == (x * Pow2(s)) % 256

RECURSIVE BitOr(_, _)
BitOr(a, b) ==
    IF a = 0 THEN b
    ELSE IF b = 0 THEN a
    ELSE (IF a % 2 = 1 \/ b % 2 = 1 THEN 1 ELSE 0) + 2 * BitOr(a \div 2, b \div 2)

RECURSIVE BitAnd(_, _)
BitAnd(a, b) ==
    IF a = 0 \/ b = 0 THEN 0
    ELSE (IF a % 2 = 1 /\ b % 2 = 1 THEN 1 ELSE 0) + 2 * BitAnd(a \div 2, b \div 2)

\* u8::count_ones
RECURSIVE count_ones(_)
count_ones(b) == IF b = 0 THEN 0 ELSE (b % 2) + count_ones(b \div 2)

\* bytes.iter().map(|b| b.count_ones() as usize).sum()
RECURSIVE SumOnes(_)
SumOnes(bytes) ==
    IF bytes = <<>> THEN 0 ELSE count_ones(Head(bytes)) + SumOnes(Tail(bytes))

(***************************************************************************)
(* common::BitSet, the set of deleted DocIds handed to the encoder         *)
(***************************************************************************)
contains(delete_bitset, doc) == doc \in delete_bitset

bitset_len(delete_bitset) == Cardinality(delete_bitset)

(***************************************************************************)
(* The writer: `writer: &mut dyn Write`.  fail_at = k > 0 makes the k-th    *)
(* write_all return an error; fail_at = 0 is a writer that never fails.    *)
(* A fail_at beyond the last write of a run is a failure that never comes. *)
(***************************************************************************)
NewWriter(fail_at) == [accepted |-> <<>>, calls |-> 0, fail_at |-> fail_at]

write_all(w, byte) ==
    IF w.calls + 1 = w.fail_at
    THEN [ok |-> FALSE, w |-> [w EXCEPT !.calls = @ + 1]]
    ELSE [ok |-> TRUE,
          w  |-> [w EXCEPT !.calls = @ + 1, !.accepted = Append(@, byte)]]

(***************************************************************************)
(* write_delete_bitset                                                     *)
(***************************************************************************)
\* the loop `for doc in 0..max_doc`, from `doc` on, with the locals byte and
\* shift; `?` leaves the function at the first failed write_all
RECURSIVE WriteLoop(_, _, _, _, _, _)
WriteLoop(delete_bitset, max_doc, doc, byte, shift, w) ==
    IF doc >= max_doc
    THEN [ok |-> TRUE, byte |-> byte, w |-> w]
    ELSE LET b1 == IF contains(delete_bitset, doc)
                   THEN BitOr(byte, Shl8(1, shift))
                   ELSE byte
         IN  IF shift = 7
             THEN LET r == write_all(w, b1)
                  IN  IF r.ok
                      THEN WriteLoop(delete_bitset, max_doc, doc + 1, 0, 0, r.w)
                      ELSE [ok |-> FALSE, byte |-> b1, w |-> r.w]
             ELSE WriteLoop(delete_bitset, max_doc, doc + 1, b1, shift + 1, w)

\* faulty variant: the last, partial byte is never written
write_delete_bitset_no_tail(delete_bitset, max_doc, w) ==
    LET l == WriteLoop(delete_bitset, max_doc, 0, 0, 0, w)
    IN  [ok |-> l.ok, w |-> l.w]

\* faulty variant: the result of the last write_all is dropped instead of returned
write_delete_bitset_swallow(delete_bitset, max_doc, w) ==
    LET l == WriteLoop(delete_bitset, max_doc, 0, 0, 0, w)
    IN  IF ~l.ok THEN [ok |-> FALSE, w |-> l.w]
        ELSE IF max_doc % 8 > 0
        THEN [ok |-> TRUE, w |-> write_all(l.w, l.byte).w]
        ELSE [ok |-> TRUE, w |-> l.w]

write_delete_bitset(delete_bitset, max_doc, w) ==
    LET l == WriteLoop(delete_bitset, max_doc, 0, 0, 0, w)
    IN  IF ~l.ok THEN [ok |-> FALSE, w |-> l.w]
        ELSE IF max_doc % 8 > 0
        THEN LET r == write_all(l.w, l.byte) IN [ok |-> r.ok, w |-> r.w]
        ELSE [ok |-> TRUE, w |-> l.w]

(***************************************************************************)
(* DeleteBitSet                                                            *)
(***************************************************************************)
DeleteBitSet(data, num_deleted) == [data |-> data, num_deleted |-> num_deleted]

\* from_bitset writes into a Vec, a writer that never fails (the unwrap)
from_bitset(bitset, max_doc) ==
    DeleteBitSet(write_delete_bitset(bitset, max_doc, NewWriter(0)).w.accepted,
                 bitset_len(bitset))

\* faulty variant: counts the bytes that hold a deleted document, not the documents
open_count_bytes(bytes) ==
    DeleteBitSet(bytes, Cardinality({k \in 1..Len(bytes) : bytes[k] # 0}))

\* open, on the bytes the file yields (a file that cannot be read yields no
\* DeleteBitSet and is not modelled)
open(bytes) == DeleteBitSet(bytes, SumOnes(bytes))

\* for_test: the set is written to a file of a RamDirectory, which is then
\* opened (the caller has checked that every doc is below max_doc)
for_test(docs, max_doc) ==
    open(write_delete_bitset(docs, max_doc, NewWriter(0)).w.accepted)

\* the outcome of a query: a boolean, or the panic of an index out of bounds
Returned(v) == [panic |-> FALSE, value |-> v]
Panicked == [panic |-> TRUE, value |-> FALSE]

\* faulty variant: a byte beyond the buffer reads as zero
is_deleted_unchecked(self, doc) ==
    LET byte_offset == doc \div 8
        b == IF byte_offset >= Len(self.data) THEN 0 ELSE self.data[byte_offset + 1]
        shift == BitAnd(doc, 7)
    IN  Returned(BitAnd(b, Shl8(1, shift)) # 0)

\* faulty variant: the bits of a byte are read from the most significant one
is_deleted_msb(self, doc) ==
    LET byte_offset == doc \div 8
        shift == BitAnd(doc, 7)
    IN  IF byte_offset >= Len(self.data) THEN Panicked
        ELSE Returned(BitAnd(self.data[byte_offset + 1], Shl8(1, 7 - shift)) # 0)

is_deleted(self, doc) ==
    LET byte_offset == doc \div 8
        shift == BitAnd(doc, 7)
    IN  IF byte_offset >= Len(self.data) THEN Panicked
        ELSE Returned(BitAnd(self.data[byte_offset + 1], Shl8(1, shift)) # 0)

is_alive(self, doc) ==
    LET r == is_deleted(self, doc)
    IN  IF r.panic THEN r ELSE Returned(~r.value)

num_deleted(self) == self.num_deleted

\* HasLen::len
len(self) == self.num_deleted

space_usage(self) == Len(self.data)

(***************************************************************************)
(* merge_delete_bitset                                                     *)
(***************************************************************************)
\* merged.resize(n, 0), the copy of left, then the |= of right
MergedData(left_data, right_data) ==
    LET n == Max(Len(left_data), Len(right_data))
        zeroed == [k \in 1..n |-> 0]
        copied == [k \in 1..n |-> IF k <= Len(left_data) THEN left_data[k] ELSE zeroed[k]]
    IN  [k \in 1..n |->
            IF k <= Len(right_data) THEN BitOr(copied[k], right_data[k]) ELSE copied[k]]

\* faulty variant: the count of the result is the sum of the operands' counts
merge_delete_bitset_sum(left, right) ==
    DeleteBitSet(MergedData(left.data, right.data),
                 left.num_deleted + right.num_deleted)

\* faulty variant: the result is as long as the shorter operand
merge_delete_bitset_min(left, right) ==
    LET full == MergedData(left.data, right.data)
        n == IF Len(left.data) <= Len(right.data) THEN Len(left.data) ELSE Len(right.data)
        cut == SubSeq(full, 1, n)
    IN  DeleteBitSet(cut, SumOnes(cut))

\* faulty variant: right's bytes are xor-ed in (^= for |=)
merge_delete_bitset_xor(left, right) ==
    LET n == Max(Len(left.data), Len(right.data))
        merged == [k \in 1..n |->
                      LET lb == IF k <= Len(left.data) THEN left.data[k] ELSE 0
                          rb == IF k <= Len(right.data) THEN right.data[k] ELSE 0
                      IN  BitOr(lb, rb) - BitAnd(lb, rb)]
    IN  DeleteBitSet(merged, SumOnes(merged))

\* faulty variant: right's bytes are assigned, not or-ed
merge_delete_bitset_assign(left, right) ==
    LET n == Max(Len(left.data), Len(right.data))
        merged == [k \in 1..n |-> IF k <= Len(right.data) THEN right.data[k]
                                  ELSE left.data[k]]
    IN  DeleteBitSet(merged, SumOnes(merged))

merge_delete_bitset(left, right) ==
    LET merged == MergedData(left.data, right.data)
    IN  DeleteBitSet(merged, SumOnes(merged))

(***************************************************************************)
(* State.  An element of `bitsets` is a DeleteBitSet `b` together with its  *)
(* history: `tracked` says that it descends, through merges only, from     *)
(* sets S written with every document below max_doc; `docs` is then the    *)
(* union of those sets and `nbytes` the largest ceil(max_doc / 8) among    *)
(* them (ceil(x / 8) is monotone, so this is ceil(max(max_doc) / 8)).       *)
(* `in_contract` is FALSE for the values from_bitset built from a set     *)
(* holding a document at or beyond max_doc, which the encoder's contract   *)
(* leaves to the caller to avoid.                                          *)
(***************************************************************************)
NumBytes(max_doc) == (max_doc + 7) \div 8

Entry(b, docs, nbytes, tracked, in_contract) ==
    [b |-> b, docs |-> docs, nbytes |-> nbytes, tracked |-> tracked,
     in_contract |-> in_contract]

Untracked(b) == Entry(b, {}, 0, FALSE, TRUE)

InRange(S, max_doc) == \A d \in S : d < max_doc

\* what the model records of a value built from the set S and max_doc
Built(b, S, max_doc) ==
    IF InRange(S, max_doc)
    THEN Entry(b, S, NumBytes(max_doc), TRUE, TRUE)
    ELSE Entry(b, {}, 0, FALSE, FALSE)

\* no query asked yet
NoQuery == [asked |-> FALSE, deleted |-> Panicked, alive |-> Panicked]

NoReq == [op |-> "none", docs |-> {}, max_doc |-> 0, doc |-> 0]

\* is_deleted and is_alive asked of one DeleteBitSet for one doc
Ask(self, doc) ==
    [asked |-> TRUE, deleted |-> is_deleted(self, doc), alive |-> is_alive(self, doc)]

Init ==
    /\ bitsets = {}
    /\ last = NoQuery
    /\ req = NoReq
    /\ sink = NewWriter(0)
    /\ wres = "none"

(***************************************************************************)
(* Inputs                                                                  *)
(***************************************************************************)
MaxDocs == 0..MaxDoc

\* the documents queried: up to the first one beyond the longest buffer
QueryDocs == 0..(8 * NumBytes(MaxDoc))

\* SpecCodec: every set of at most MaxCard documents
CodecSets == {S \in SUBSET (0..MaxDoc) : Cardinality(S) <= MaxCard}

\* SpecCodec: the empty buffer and every buffer of one byte
RawBuffers == {<<>>} \cup {<<byte>> : byte \in 0..255}

\* Spec: the empty set and the singletons, with every max_doc, the two sets
\* of test_delete_bitset_merge, and a set that overlaps them
PoolInputs ==
    {<<S, max_doc>> : S \in {{}} \cup {{d} : d \in 0..MaxPoolDoc},
                      max_doc \in 0..MaxPoolDoc}
    \cup {<<{1, 9}, 10>>, <<{1, 5, 9, 14}, 15>>, <<{0, 1}, 2>>}

\* Spec: two buffers of another origin (every bit set, a third byte)
PoolBuffers == {<<255>>, <<2, 0, 1>>}

\* Spec: the documents queried
PoolQueryDocs == 0..(8 * NumBytes(MaxPoolDoc))

(***************************************************************************)
(* SpecCodec: one encode or construction, then one query                   *)
(***************************************************************************)
\* write_delete_bitset on a writer whose fail_at-th write fails
Encode(S, max_doc, fail_at) ==
    /\ LET r == write_delete_bitset(S, max_doc, NewWriter(fail_at))
       IN  /\ sink' = r.w
           /\ wres' = IF r.ok THEN "ok" ELSE "err"
    /\ req' = [req EXCEPT !.op = "write", !.docs = S, !.max_doc = max_doc]
    /\ UNCHANGED <<bitsets, last>>

\* DeleteBitSet::open on the file that was written
OpenWritten ==
    /\ req.op = "write"
    /\ wres = "ok"
    /\ bitsets' = {Built(open(sink.accepted), req.docs, req.max_doc)}
    /\ req' = [req EXCEPT !.op = "write_open"]
    /\ UNCHANGED <<last, sink, wres>>

CodecFromBitset(S, max_doc) ==
    /\ bitsets' = {Built(from_bitset(S, max_doc), S, max_doc)}
    /\ req' = [req EXCEPT !.op = "from_bitset", !.docs = S, !.max_doc = max_doc]
    /\ UNCHANGED <<last, sink, wres>>

CodecOpenRaw(buf) ==
    /\ bitsets' = {Untracked(open(buf))}
    /\ req' = [req EXCEPT !.op = "open"]
    /\ UNCHANGED <<last, sink, wres>>

CodecQuery(doc) ==
    /\ ~last.asked
    /\ \E e \in bitsets : last' = Ask(e.b, doc)
    /\ req' = [req EXCEPT !.doc = doc]
    /\ UNCHANGED <<bitsets, sink, wres>>

NextCodec ==
    \/ /\ req.op = "none"
       /\ \E S \in CodecSets, max_doc \in MaxDocs :
             \E fail_at \in 0..(NumBytes(max_doc) + 1) : Encode(S, max_doc, fail_at)
    \/ OpenWritten
    \/ /\ req.op = "none"
       /\ \E S \in CodecSets, max_doc \in MaxDocs : CodecFromBitset(S, max_doc)
    \/ /\ req.op = "none"
       /\ \E buf \in RawBuffers : CodecOpenRaw(buf)
    \/ \E doc \in QueryDocs : CodecQuery(doc)

SpecCodec == Init /\ [][NextCodec]_vars

(***************************************************************************)
(* Spec: a pool of DeleteBitSet values                                     *)
(***************************************************************************)
ForTest(S, max_doc) ==
    /\ Cardinality(bitsets) < MaxBitsets
    /\ InRange(S, max_doc)
    /\ bitsets' = bitsets \cup {Built(for_test(S, max_doc), S, max_doc)}
    /\ last' = NoQuery
    /\ UNCHANGED <<req, sink, wres>>

FromBitset(S, max_doc) ==
    /\ Cardinality(bitsets) < MaxBitsets
    /\ bitsets' = bitsets \cup {Built(from_bitset(S, max_doc), S, max_doc)}
    /\ last' = NoQuery
    /\ UNCHANGED <<req, sink, wres>>

Open(buf) ==
    /\ Cardinality(bitsets) < MaxBitsets
    /\ bitsets' = bitsets \cup {Untracked(open(buf))}
    /\ last' = NoQuery
    /\ UNCHANGED <<req, sink, wres>>

\* the merge of two live values and what is known of the result
MergeEntry(l, r) ==
    Entry(merge_delete_bitset(l.b, r.b),
          IF l.tracked /\ r.tracked THEN l.docs \cup r.docs ELSE {},
          IF l.tracked /\ r.tracked THEN Max(l.nbytes, r.nbytes) ELSE 0,
          l.tracked /\ r.tracked,
          TRUE)

\* faulty variant: the merge is built in left's place
StoreMergedInPlace(pool, l, r) == (pool \ {l}) \cup {MergeEntry(l, r)}

\* merge_delete_bitset borrows its operands and returns a value of its own
StoreMerged(pool, l, r) == pool \cup {MergeEntry(l, r)}

Merge(l, r) ==
    /\ Cardinality(bitsets) < MaxBitsets
    /\ bitsets' = StoreMerged(bitsets, l, r)
    /\ last' = NoQuery
    /\ UNCHANGED <<req, sink, wres>>

\* the outcome stands until the next operation
Query(e, doc) ==
    /\ ~last.asked
    /\ last' = Ask(e.b, doc)
    /\ UNCHANGED <<bitsets, req, sink, wres>>

Next ==
    \/ \E in \in PoolInputs : ForTest(in[1], in[2])
    \/ \E in \in PoolInputs : FromBitset(in[1], in[2])
    \/ \E buf \in PoolBuffers : Open(buf)
    \/ \E l \in bitsets, r \in bitsets : Merge(l, r)
    \/ \E e \in bitsets, doc \in PoolQueryDocs : Query(e, doc)

Spec == Init /\ [][Next]_vars

(***************************************************************************)
(* What the format says, stated without the code's operators               *)
(***************************************************************************)
\* bit j (0 = least significant) of a byte
BitAt(byte, j) == (byte \div Pow2(j)) % 2

\* the documents a buffer marks, padding positions included
Marked(data) ==
    {d \in 0..(8 * Len(data) - 1) : BitAt(data[(d \div 8) + 1], d % 8) = 1}

\* the least n with 8 * n >= max_doc
Ceil8(max_doc) == CHOOSE n \in 0..max_doc : 8 * n >= max_doc /\ (n = 0 \/ 8 * (n - 1) < max_doc)

\* byte k (from 1) of the encoding of S over max_doc documents
RECURSIVE SumPow2(_)
SumPow2(js) ==
    IF js = {} THEN 0
    ELSE LET j == CHOOSE x \in js : TRUE IN Pow2(j) + SumPow2(js \ {j})

EncodedByte(S, max_doc, k) ==
    SumPow2({j \in 0..7 : 8 * (k - 1) + j < max_doc /\ 8 * (k - 1) + j \in S})

Encoding(S, max_doc) == [k \in 1..Ceil8(max_doc) |-> EncodedByte(S, max_doc, k)]

(***************************************************************************)
(* SpecCodec: the encoder                                                  *)
(***************************************************************************)
Written == req.op \in {"write", "write_open"}

\* the number of write_all calls a run makes when none fails
Writes == Ceil8(req.max_doc)

\* C1: with a sink that never fails, write_delete_bitset(S, max_doc) writes
\* exactly ceil(max_doc / 8) bytes, in ascending byte order; bit i % 8 of
\* byte i / 8 is 1 iff i is in S, for every i below max_doc, and every
\* padding bit of the last byte is 0, whatever S contains.
C1_EncodingLayout ==
    (Written /\ sink.fail_at = 0) =>
        /\ wres = "ok"
        /\ sink.calls = Ceil8(req.max_doc)
        /\ Len(sink.accepted) = Ceil8(req.max_doc)
        /\ \A i \in 0..(8 * Len(sink.accepted) - 1) :
              BitAt(sink.accepted[(i \div 8) + 1], i % 8) = 1
                  <=> (i < req.max_doc /\ i \in req.docs)

\* S = {1, 9} over max_doc = 10 was written as [0b00000010, 0b00000010]
C1_Witness ==
    /\ req.op = "write" /\ sink.fail_at = 0
    /\ req.docs = {1, 9} /\ req.max_doc = 10
    /\ sink.accepted = <<2, 2>>

\* C8: if the k-th write fails, write_delete_bitset stops there (k calls,
\* no retry), returns the error, and the sink holds exactly the first
\* k - 1 bytes of the encoding; if no write fails it returns success.
C8_EncoderFailure ==
    Written =>
        IF sink.fail_at \in 1..Writes
        THEN /\ wres = "err"
             /\ sink.calls = sink.fail_at
             /\ sink.accepted = SubSeq(Encoding(req.docs, req.max_doc), 1, sink.fail_at - 1)
        ELSE /\ wres = "ok"
             /\ sink.accepted = Encoding(req.docs, req.max_doc)

\* the write of the last, partial byte failed after one byte was accepted
C8_Witness ==
    /\ req.op = "write" /\ wres = "err"
    /\ req.docs = {1, 9} /\ req.max_doc = 10
    /\ sink.fail_at = 2 /\ sink.calls = 2
    /\ sink.accepted = <<2>>

(***************************************************************************)
(* SpecCodec: one DeleteBitSet                                             *)
(***************************************************************************)
\* C2: a set S of documents below max_doc, written and opened, is read back
\* by is_deleted: is_deleted(doc) = (doc in S) for every doc below max_doc.
C2_RoundTrip ==
    (req.op = "write_open" /\ InRange(req.docs, req.max_doc)) =>
        /\ \A e \in bitsets : \A doc \in 0..(req.max_doc - 1) :
              is_deleted(e.b, doc) = Returned(doc \in req.docs)
        /\ (last.asked /\ req.doc < req.max_doc) =>
              last.deleted = Returned(req.doc \in req.docs)

\* document 9 of {1, 9} over 10 documents was asked for and found deleted
C2_Witness ==
    /\ req.op = "write_open"
    /\ req.docs = {1, 9} /\ req.max_doc = 10
    /\ last.asked /\ req.doc = 9
    /\ last.deleted = Returned(TRUE)

\* C4: a DeleteBitSet built from a set S of documents below max_doc, by
\* from_bitset or by write then open, has num_deleted() = |S|, and len()
\* returns the same.
C4_CountLaw ==
    (req.op \in {"write_open", "from_bitset"} /\ InRange(req.docs, req.max_doc)) =>
        \A e \in bitsets :
            /\ num_deleted(e.b) = Cardinality(req.docs)
            /\ len(e.b) = num_deleted(e.b)

\* {1, 9} over 10 documents, written and opened, counts 2
C4_Witness ==
    /\ req.op = "write_open"
    /\ req.docs = {1, 9} /\ req.max_doc = 10
    /\ \E e \in bitsets : num_deleted(e.b) = 2 /\ len(e.b) = 2

\* C9: is_deleted(doc) and is_alive(doc) return a boolean iff doc / 8 is
\* below the byte length of data (padding positions included) and panic
\* otherwise; every query on an empty buffer panics.
C9_OutOfRange ==
    /\ \A e \in bitsets : \A doc \in QueryDocs :
          /\ is_deleted(e.b, doc).panic <=> (doc \div 8 >= Len(e.b.data))
          /\ is_alive(e.b, doc).panic <=> (doc \div 8 >= Len(e.b.data))
          /\ (doc \div 8 < Len(e.b.data)) =>
                /\ is_deleted(e.b, doc) = Returned(doc \in Marked(e.b.data))
                /\ is_alive(e.b, doc) = Returned(doc \notin Marked(e.b.data))
    /\ last.asked =>
          \A e \in bitsets :
              /\ last.deleted.panic <=> (req.doc \div 8 >= space_usage(e.b))
              /\ last.alive.panic <=> (req.doc \div 8 >= space_usage(e.b))

\* a query beyond a buffer that is not empty panicked
C9_Witness ==
    /\ last.asked /\ last.deleted.panic /\ last.alive.panic
    /\ \E e \in bitsets : Len(e.b.data) = 1 /\ req.doc = 8

(***************************************************************************)
(* Spec: the pool                                                          *)
(***************************************************************************)
\* the number of set bits of a buffer
PopCount(data) == Cardinality(Marked(data))

\* byte k (from 1) of a buffer, zero beyond its end
ByteOrZero(data, k) == IF k <= Len(data) THEN data[k] ELSE 0

\* doc is deleted in an operand whose buffer covers it
DeletedIn(self, doc) ==
    doc \div 8 < Len(self.data) /\ BitAt(self.data[(doc \div 8) + 1], doc % 8) = 1

CountInvariant(e) == e.b.num_deleted = PopCount(e.b.data)

\* C3 as claimed: num_deleted is the population count of data for every
\* DeleteBitSet, from_bitset of any set S and any max_doc included.
C3_CountInvariantAnySet == \A e \in bitsets : CountInvariant(e)

\* C3: num_deleted is the population count of data for every DeleteBitSet
\* built by from_bitset(S, max_doc) with every document of S below max_doc,
\* by open on any buffer, or by merge_delete_bitset of any two DeleteBitSets
\* (whatever their counts), after any sequence of these constructions.
C3_CountInvariant ==
    /\ \A e \in bitsets : e.in_contract => CountInvariant(e)
    /\ \A l \in bitsets, r \in bitsets : CountInvariant(MergeEntry(l, r))

\* a merge of a value whose count is off has an exact count of its own
C3_Witness ==
    \E l \in bitsets, m \in bitsets :
        /\ ~l.in_contract /\ ~CountInvariant(l)
        /\ m = MergeEntry(l, l) /\ m # l
        /\ CountInvariant(m)

\* C5: merge_delete_bitset(left, right) is as long as the longer operand and
\* its byte k is (left byte k or 0) OR (right byte k or 0); so a document it
\* covers is deleted in it iff it is deleted in an operand that covers it,
\* and beyond the shorter operand it is the longer operand's bit.
C5_MergeZeroExtension ==
    \A l \in bitsets, r \in bitsets :
        LET m == merge_delete_bitset(l.b, r.b)
            short == IF Len(l.b.data) <= Len(r.b.data) THEN l.b ELSE r.b
            long == IF Len(l.b.data) <= Len(r.b.data) THEN r.b ELSE l.b
        IN  /\ Len(m.data) = Max(Len(l.b.data), Len(r.b.data))
            /\ space_usage(m) = Len(long.data)
            /\ \A k \in 1..Len(m.data) : \A j \in 0..7 :
                  BitAt(m.data[k], j) = 1
                      <=> (BitAt(ByteOrZero(l.b.data, k), j) = 1
                           \/ BitAt(ByteOrZero(r.b.data, k), j) = 1)
            /\ \A doc \in 0..(8 * Len(m.data) - 1) :
                  LET got == is_deleted(m, doc)
                  IN  /\ got = Returned(DeletedIn(l.b, doc) \/ DeletedIn(r.b, doc))
                      /\ (doc \div 8 >= Len(short.data)) => got = is_deleted(long, doc)

\* test_delete_bitset_merge: {1, 9} over 10 merged with {1, 5, 9, 14} over 15
\* is deleted exactly at 1, 5, 9 and 14 among 0..15
C5_Witness ==
    \E l \in bitsets, r \in bitsets :
        /\ l.b = for_test({1, 9}, 10)
        /\ r.b = for_test({1, 5, 9, 14}, 15)
        /\ MergeEntry(l, r) \in bitsets
        /\ \A doc \in 0..15 :
              is_deleted(merge_delete_bitset(l.b, r.b), doc) = Returned(doc \in {1, 5, 9, 14})

\* C6: merge_delete_bitset is commutative and associative on the whole
\* value, data and num_deleted, for operands of any byte lengths.
C6_MergeCommAssoc ==
    \A a \in bitsets, b \in bitsets :
        /\ merge_delete_bitset(a.b, b.b) = merge_delete_bitset(b.b, a.b)
        /\ \A c \in bitsets :
              merge_delete_bitset(merge_delete_bitset(a.b, b.b), c.b)
                  = merge_delete_bitset(a.b, merge_delete_bitset(b.b, c.b))

\* two values of different byte lengths, each with a document the other
\* lacks, and their merge, which is neither
C6_Witness ==
    \E a \in bitsets, b \in bitsets, m \in bitsets :
        /\ Len(a.b.data) < Len(b.b.data)
        /\ Marked(a.b.data) \ Marked(b.b.data) # {}
        /\ Marked(b.b.data) \ Marked(a.b.data) # {}
        /\ m = MergeEntry(a, b)
        /\ m \notin {a, b}

\* C7: no query and no merge changes a DeleteBitSet that exists: every value
\* of the pool is still there, with the same data and num_deleted, after
\* every step, and merge adds a value of its own.
C7_Immutable == [][\A e \in bitsets : e \in bitsets']_vars

\* a merge was stored beside its operands and a query was answered
C7_Witness ==
    /\ last.asked
    /\ \E l \in bitsets, r \in bitsets :
          /\ l # r
          /\ MergeEntry(l, r) \in bitsets
          /\ MergeEntry(l, r) \notin {l, r}

\* what C10 says of one value that descends from written sets
UnionLaw(e) ==
    e.tracked =>
        /\ Len(e.b.data) = e.nbytes
        /\ \A d \in 0..(8 * e.nbytes - 1) : is_deleted(e.b, d) = Returned(d \in e.docs)
        /\ num_deleted(e.b) = Cardinality(e.docs)

\* C10: a DeleteBitSet obtained by merges, in any nesting and order, from
\* values written from sets S_i of documents below max_doc_i and opened has
\* ceil(max(max_doc_i) / 8) bytes, is deleted exactly at the union of the
\* S_i, and has num_deleted equal to the cardinality of that union.
C10_UnionBookkeeping ==
    \A a \in bitsets :
        /\ UnionLaw(a)
        /\ \A b \in bitsets :
              LET ab == MergeEntry(a, b)
              IN  /\ UnionLaw(ab)
                  /\ \A c \in bitsets :
                        /\ UnionLaw(MergeEntry(ab, c))
                        /\ UnionLaw(MergeEntry(c, ab))

\* two written sets that share a document were merged: the shared document
\* is counted once
C10_Witness ==
    \E l \in bitsets, r \in bitsets, m \in bitsets :
        /\ l.tracked /\ r.tracked
        /\ l.docs \cap r.docs # {}
        /\ m = MergeEntry(l, r) /\ m \notin {l, r}
        /\ num_deleted(m.b) = Cardinality(l.docs \cup r.docs)
        /\ num_deleted(m.b) < num_deleted(l.b) + num_deleted(r.b)

====
